---- MODULE Spec2Model ----
(***************************************************************************)
(* A model of lib/rich_helper.py: the presentation facade (print_header,   *)
(* print_section, print_status, print_check, print_table,                  *)
(* print_progress_bar, print_summary, print_disclaimer) and the            *)
(* command-line dispatcher main().  The console is the sequence of items   *)
(* handed to console.print; a Python value that may be None is a tagged    *)
(* record, so that truthiness (`x or d`, `if x:`) and `x is None` are the  *)
(* different tests they are in Python.                                     *)
(***************************************************************************)
EXTENDS Integers, Sequences, FiniteSets, TLC

VARIABLES pc, argv, args, calls, console, task, i, exit_code

vars == <<pc, argv, args, calls, console, task, i, exit_code>>

(***************************************************************************)
(* Python values.                                                          *)
(***************************************************************************)
None == [t |-> "None"]

PyStr(s) == [t |-> "str", v |-> s]

PyInt(n) == [t |-> "int", v |-> n]

\* bool(x) for None, str and int
Truthy(x) == CASE x.t = "None" -> FALSE
               [] x.t = "str" -> x.v # ""
               [] x.t = "int" -> x.v # 0

\* the value of the Python expression `a or b`
Or(a, b) == IF Truthy(a) THEN a ELSE b

(***************************************************************************)
(* IEEE-754 binary64 arithmetic, as far as `round((passed / total) * 100)` *)
(* needs it.  A positive double is 2^e * (1 + m[1]/L + m[2]/L^2 + m[3]/L^3 *)
(* + m[4]/L^4) with L = 2^13: 52 fraction bits in four limbs, so that no   *)
(* intermediate value leaves the range of the model checker's integers.   *)
(***************************************************************************)
Limb == 2^13

FZero == [zero |-> TRUE, e |-> 0, m |-> <<0, 0, 0, 0>>]

\* the mantissa m plus one unit in the last place, carrying into the exponent
FIncrement(e, m) ==
    LET c4 == IF m[4] + 1 = Limb THEN 1 ELSE 0
        c3 == IF m[3] + c4 = Limb THEN 1 ELSE 0
        c2 == IF m[2] + c3 = Limb THEN 1 ELSE 0
        c1 == IF m[1] + c2 = Limb THEN 1 ELSE 0
    IN  [zero |-> FALSE, e |-> e + c1,
         m |-> << (m[1] + c2) % Limb, (m[2] + c3) % Limb,
                  (m[3] + c4) % Limb, (m[4] + 1) % Limb >>]

\* round to nearest, ties to even: `rem` out of `unit` is what was cut off
FRoundNearestEven(e, m, rem, unit) ==
    IF 2 * rem > unit \/ (2 * rem = unit /\ m[4] % 2 = 1)
    THEN FIncrement(e, m)
    ELSE [zero |-> FALSE, e |-> e, m |-> m]

\* <<p', t', e>> with t' <= p' < 2 t' and p/t = 2^e * p'/t'
RECURSIVE FNormalise(_, _, _)
FNormalise(p, t, e) ==
    IF p < t THEN FNormalise(2 * p, t, e - 1)
    ELSE IF p >= 2 * t THEN FNormalise(p, 2 * t, e + 1)
    ELSE <<p, t, e>>

\* the double p / t of two ints, 0 <= p and 0 < t (Python's true division)
FDiv(p, t) ==
    IF p = 0 THEN FZero
    ELSE LET n  == FNormalise(p, t, 0)
             d  == n[2]
             r0 == n[1] - d
             d1 == (r0 * Limb) \div d
             r1 == (r0 * Limb) % d
             d2 == (r1 * Limb) \div d
             r2 == (r1 * Limb) % d
             d3 == (r2 * Limb) \div d
             r3 == (r2 * Limb) % d
             d4 == (r3 * Limb) \div d
             r4 == (r3 * Limb) % d
         IN  FRoundNearestEven(n[3], <<d1, d2, d3, d4>>, r4, d)

\* floor(log2(n)) for n >= 1
RECURSIVE FloorLog2(_)
FloorLog2(n) == IF n < 2 THEN 0 ELSE 1 + FloorLog2(n \div 2)

\* the double x * k for a double x and a small int k >= 1
FMul(x, k) ==
    IF x.zero THEN FZero
    ELSE LET t4  == x.m[4] * k
             t3  == x.m[3] * k + (t4 \div Limb)
             t2  == x.m[2] * k + (t3 \div Limb)
             t1  == x.m[1] * k + (t2 \div Limb)
             top == k + (t1 \div Limb)
             c1  == t1 % Limb
             c2  == t2 % Limb
             c3  == t3 % Limb
             c4  == t4 % Limb
             s   == FloorLog2(top)
             lo  == 2^s
             hi  == Limb \div lo
             d1  == (top % lo) * hi + (c1 \div lo)
             d2  == (c1 % lo) * hi + (c2 \div lo)
             d3  == (c2 % lo) * hi + (c3 \div lo)
             d4  == (c3 % lo) * hi + (c4 \div lo)
         IN  FRoundNearestEven(x.e + s, <<d1, d2, d3, d4>>, c4 % lo, lo)

\* the 13 bits of a limb, most significant first
LimbBits(d) == [b \in 1..13 |-> (d \div 2^(13 - b)) % 2]

\* the 52 fraction bits of a double, most significant first
FractionBits(x) ==
    LimbBits(x.m[1]) \o LimbBits(x.m[2]) \o LimbBits(x.m[3]) \o LimbBits(x.m[4])

\* the integer whose binary digits are the first n bits of `bits` after a leading 1
RECURSIVE IntegerPart(_, _)
IntegerPart(bits, n) ==
    IF n = 0 THEN 1 ELSE 2 * IntegerPart(bits, n - 1) + bits[n]

\* round() rounding a half up instead of to the even integer
PyRoundHalfUp(x) ==
    IF x.zero \/ x.e < -1 THEN 0
    ELSE IF x.e = -1 THEN 1
    ELSE LET bits == FractionBits(x)
         IN  IntegerPart(bits, x.e) + bits[x.e + 1]

\* Python's round(x) of a double 0 <= x < 2^31: the nearest integer, a double
\* exactly halfway between two integers going to the even one
PyRound(x) ==
    IF x.zero \/ x.e < -1 THEN 0
    ELSE IF x.e = -1 THEN (IF x.m = <<0, 0, 0, 0>> THEN 0 ELSE 1)
    ELSE LET bits == FractionBits(x)
             whole == IntegerPart(bits, x.e)
             half == bits[x.e + 1]
             rest == \E b \in (x.e + 2)..52 : bits[b] = 1
         IN  IF half = 1 /\ (rest \/ whole % 2 = 1) THEN whole + 1 ELSE whole

(***************************************************************************)
(* The presentation facade.  Each operation is the sequence of items it    *)
(* hands to console.print.  An icon is written by its name, and the fixed  *)
(* text of a disclaimer panel by its heading and its closing sentence.     *)
(***************************************************************************)
\* dict.get(key, default) on a dict given as a function on its keys
Get(dict, key, default) == IF key \in DOMAIN dict THEN dict[key] ELSE default

styles == [info |-> "blue", success |-> "green", warning |-> "yellow", error |-> "red"]

status_icons == [PASS |-> "check-mark", FAIL |-> "cross-mark", WARN |-> "warning-sign",
                 INFO |-> "information"]

status_colors == [PASS |-> "green", FAIL |-> "red", WARN |-> "yellow", INFO |-> "blue"]

print_header(title, subtitle) ==
    LET header_text == <<[text |-> title, style |-> "bold blue"]>>
                       \o (IF subtitle # "" THEN <<[text |-> subtitle, style |-> "dim"]>>
                           ELSE <<>>)
    IN  <<[kind |-> "panel", body |-> header_text, box |-> "DOUBLE",
           border_style |-> "blue"]>>

print_section(title) ==
    <<[kind |-> "line", text |-> title, style |-> "bold cyan"]>>

print_status(message, style) ==
    <<[kind |-> "line", text |-> message, style |-> Get(styles, style, "white")]>>

\* print_check with the colour looked up without the default white
print_check_info_default(name, status, details) ==
    LET icon == Get(status_icons, status, "bullet")
        color == Get(status_colors, status, status_colors.INFO)
    IN  <<[kind |-> "check", icon |-> icon, color |-> color, status |-> status,
           name |-> name]>>
        \o (IF details # "" THEN <<[kind |-> "details", text |-> details]>> ELSE <<>>)

print_check(name, status, details) ==
    LET icon == Get(status_icons, status, "bullet")
        color == Get(status_colors, status, "white")
    IN  <<[kind |-> "check", icon |-> icon, color |-> color, status |-> status,
           name |-> name]>>
        \o (IF details # "" THEN <<[kind |-> "details", text |-> details]>> ELSE <<>>)

\* the rate with floor division, passed // total * 100
success_rate_floor_division(total, passed, rate) ==
    IF rate = None
    THEN (IF total > 0 THEN (passed \div total) * 100 ELSE 0)
    ELSE rate.v

\* lines 120-123: the success rate the summary table shows
success_rate(total, passed, rate) ==
    IF rate = None
    THEN (IF total > 0 THEN PyRound(FMul(FDiv(passed, total), 100)) ELSE 0)
    ELSE rate.v

\* the three status panels of print_summary
status_panel(tier) ==
    [kind |-> "panel", tier |-> tier, box |-> "ROUNDED",
     border_style |-> CASE tier = "EXCELLENT" -> "green"
                        [] tier = "GOOD" -> "yellow"
                        [] OTHER -> "red"]

\* the tier with `failed < 3` for GOOD in the derived branch
overall_tier_strict(warnings, failed, overall_status) ==
    IF Truthy(overall_status)
    THEN (IF overall_status = PyStr("EXCELLENT") THEN "EXCELLENT"
          ELSE IF overall_status = PyStr("GOOD") THEN "GOOD"
          ELSE "NEEDS ATTENTION")
    ELSE (IF failed = 0 /\ warnings = 0 THEN "EXCELLENT"
          ELSE IF failed < 3 THEN "GOOD"
          ELSE "NEEDS ATTENTION")

\* the tier with the supplied overall_status never looked at
overall_tier_counts_only(warnings, failed, overall_status) ==
    IF failed = 0 /\ warnings = 0 THEN "EXCELLENT"
    ELSE IF failed <= 3 THEN "GOOD"
    ELSE "NEEDS ATTENTION"

\* lines 138-179: the tier of the status panel
overall_tier(warnings, failed, overall_status) ==
    IF Truthy(overall_status)
    THEN (IF overall_status = PyStr("EXCELLENT") THEN "EXCELLENT"
          ELSE IF overall_status = PyStr("GOOD") THEN "GOOD"
          ELSE "NEEDS ATTENTION")
    ELSE (IF failed = 0 /\ warnings = 0 THEN "EXCELLENT"
          ELSE IF failed <= 3 THEN "GOOD"
          ELSE "NEEDS ATTENTION")

print_summary(total, passed, warnings, failed, rate, overall_status) ==
    << [kind |-> "table", title |-> "Summary Statistics",
        rows |-> << <<"Total Categories", total>>, <<"Passed", passed>>,
                    <<"Warnings", warnings>>, <<"Failed", failed>>,
                    <<"Success Rate", success_rate(total, passed, rate)>> >>],
       status_panel(overall_tier(warnings, failed, overall_status)) >>

\* print_disclaimer with the system_removal branch missing
print_disclaimer_two_kinds(disclaimer_type) ==
    IF disclaimer_type = "legal"
    THEN <<[kind |-> "panel", title |-> "LEGAL DISCLAIMER",
            content |-> "LEGAL DISCLAIMER: provided 'AS IS' without warranty; at your own risk",
            border_style |-> "red", box |-> "DOUBLE"]>>
    ELSE IF disclaimer_type = "removal"
    THEN <<[kind |-> "panel", title |-> "COMPLETE REMOVAL CONFIRMATION",
            content |-> "COMPLETE REMOVAL CONFIRMATION: type 'REMOVE DEATH STAR' to proceed",
            border_style |-> "red", box |-> "DOUBLE"]>>
    ELSE <<[kind |-> "panel", title |-> "",
            content |-> "Unknown disclaimer type",
            border_style |-> "yellow", box |-> "ROUNDED"]>>

print_disclaimer(disclaimer_type) ==
    IF disclaimer_type = "legal"
    THEN <<[kind |-> "panel", title |-> "LEGAL DISCLAIMER",
            content |-> "LEGAL DISCLAIMER: provided 'AS IS' without warranty; at your own risk",
            border_style |-> "red", box |-> "DOUBLE"]>>
    ELSE IF disclaimer_type = "removal"
    THEN <<[kind |-> "panel", title |-> "COMPLETE REMOVAL CONFIRMATION",
            content |-> "COMPLETE REMOVAL CONFIRMATION: type 'REMOVE DEATH STAR' to proceed",
            border_style |-> "red", box |-> "DOUBLE"]>>
    ELSE IF disclaimer_type = "system_removal"
    THEN <<[kind |-> "panel", title |-> "COMPLETE SYSTEM REMOVAL",
            content |-> "COMPLETE SYSTEM REMOVAL: THIS ACTION CANNOT BE UNDONE!",
            border_style |-> "red", box |-> "DOUBLE"]>>
    ELSE <<[kind |-> "panel", title |-> "",
            content |-> "Unknown disclaimer type",
            border_style |-> "yellow", box |-> "ROUNDED"]>>

(***************************************************************************)
(* print_progress_bar: one task of total 100, and 100 iterations that      *)
(* each sleep and then advance the task by 1.                              *)
(***************************************************************************)
TaskTotal == 100

Steps == 100

\* progress.add_task(description, total=100)
add_task(description) == [description |-> description, total |-> TaskTotal, completed |-> 0]

\* update(task, completed=1) in place of update(task, advance=1)
update_completed(tk, advance) == [tk EXCEPT !.completed = advance]

\* progress.update(task, advance=1)
update(tk, advance) == [tk EXCEPT !.completed = @ + advance]

\* lines 105-112: enter the Progress context and create the task
ProgressEnter(description) ==
    /\ task' = add_task(description)
    /\ i' = 0
    /\ pc' = "progress_loop"

\* lines 114-116: one iteration of `for i in range(100)`
ProgressStep ==
    /\ pc = "progress_loop"
    /\ i < Steps
    /\ task' = update(task, 1)
    /\ i' = i + 1
    /\ UNCHANGED <<pc, argv, args, calls, console, exit_code>>

\* the loop is exhausted: the Progress context exits and the operation returns
ProgressReturn ==
    /\ pc = "progress_loop"
    /\ ~(i < Steps)
    /\ pc' = "returned"
    /\ UNCHANGED <<argv, args, calls, console, task, i, exit_code>>

(***************************************************************************)
(* A call of a facade operation: what it prints, and what it leaves.       *)
(***************************************************************************)
Render(call) ==
    CASE call.op = "print_header" -> print_header(call.title, call.subtitle)
      [] call.op = "print_section" -> print_section(call.title)
      [] call.op = "print_status" -> print_status(call.message, call.style)
      [] call.op = "print_check" -> print_check(call.name, call.status, call.details)
      [] call.op = "print_disclaimer" -> print_disclaimer(call.disclaimer_type)
      [] call.op = "print_summary" ->
            print_summary(call.total, call.passed, call.warnings, call.failed,
                          call.rate, call.overall_status)

Invoke(call) ==
    /\ calls' = Append(calls, call)
    /\ IF call.op = "print_progress_bar"
       THEN ProgressEnter(call.description) /\ UNCHANGED console
       ELSE /\ console' = console \o Render(call)
            /\ pc' = "returned"
            /\ UNCHANGED <<task, i>>

(***************************************************************************)
(* The facade used as a library: one call with arguments of the caller's   *)
(* choice.                                                                 *)
(***************************************************************************)
MaxWarnings == 2

MaxFailed == 5

Texts == {"Death Star", "Setup"}

StyleTags == {"info", "success", "warning", "error", "", "INFO", "debug"}

StatusTags == {"PASS", "FAIL", "WARN", "INFO", "", "pass", "SKIP"}

DisclaimerKinds == {"legal", "removal", "system_removal", "", "Legal", "warranty"}

OverallTags == {None, PyStr(""), PyStr("EXCELLENT"), PyStr("GOOD"),
                PyStr("NEEDS ATTENTION"), PyStr("good")}

Rates == {None, PyInt(0), PyInt(85)}

LibInit ==
    /\ pc = "caller"
    /\ argv = None
    /\ args = None
    /\ calls = <<>>
    /\ console = <<>>
    /\ task = None
    /\ i = 0
    /\ exit_code = None

CallHeader ==
    /\ pc = "caller"
    /\ \E title \in Texts, subtitle \in Texts \cup {""} :
          Invoke([op |-> "print_header", title |-> title, subtitle |-> subtitle])
    /\ UNCHANGED <<argv, args, exit_code>>

CallSection ==
    /\ pc = "caller"
    /\ \E title \in Texts : Invoke([op |-> "print_section", title |-> title])
    /\ UNCHANGED <<argv, args, exit_code>>

CallStatus ==
    /\ pc = "caller"
    /\ \E message \in Texts, style \in StyleTags :
          Invoke([op |-> "print_status", message |-> message, style |-> style])
    /\ UNCHANGED <<argv, args, exit_code>>

CallCheck ==
    /\ pc = "caller"
    /\ \E name \in Texts, status \in StatusTags, details \in {"", "not running"} :
          Invoke([op |-> "print_check", name |-> name, status |-> status,
                  details |-> details])
    /\ UNCHANGED <<argv, args, exit_code>>

CallDisclaimer ==
    /\ pc = "caller"
    /\ \E kind \in DisclaimerKinds :
          Invoke([op |-> "print_disclaimer", disclaimer_type |-> kind])
    /\ UNCHANGED <<argv, args, exit_code>>

CallSummary ==
    /\ pc = "caller"
    /\ \E total \in {0, 10}, passed \in {0, 7, 10}, warnings \in 0..MaxWarnings,
          failed \in 0..MaxFailed, rate \in Rates, overall_status \in OverallTags :
          Invoke([op |-> "print_summary", total |-> total, passed |-> passed,
                  warnings |-> warnings, failed |-> failed, rate |-> rate,
                  overall_status |-> overall_status])
    /\ UNCHANGED <<argv, args, exit_code>>

CallProgress ==
    /\ pc = "caller"
    /\ \E description \in Texts :
          Invoke([op |-> "print_progress_bar", description |-> description])
    /\ UNCHANGED <<argv, args, exit_code>>

LibNext ==
    \/ CallHeader
    \/ CallSection
    \/ CallStatus
    \/ CallCheck
    \/ CallDisclaimer
    \/ CallSummary
    \/ CallProgress
    \/ ProgressStep
    \/ ProgressReturn

LibSpec == LibInit /\ [][LibNext]_vars

\* a call that was started runs on: the interpreter does not stop between statements
LibFairSpec == LibSpec /\ WF_vars(ProgressStep) /\ WF_vars(ProgressReturn)

(***************************************************************************)
(* print_summary over a wide range of counts, for the computed rate.       *)
(***************************************************************************)
MaxTotal == 200

MaxPassed == 200

CallSummaryComputed ==
    /\ pc = "caller"
    /\ \E total \in 0..MaxTotal, passed \in 0..MaxPassed :
          Invoke([op |-> "print_summary", total |-> total, passed |-> passed,
                  warnings |-> 0, failed |-> 0, rate |-> None,
                  overall_status |-> None])
    /\ UNCHANGED <<argv, args, exit_code>>

CallSummarySupplied ==
    /\ pc = "caller"
    /\ \E total \in {0, 8, 10}, passed \in {0, 1, 7, 10}, rate \in Rates \ {None} :
          Invoke([op |-> "print_summary", total |-> total, passed |-> passed,
                  warnings |-> 0, failed |-> 0, rate |-> rate,
                  overall_status |-> None])
    /\ UNCHANGED <<argv, args, exit_code>>

RateNext ==
    \/ CallSummaryComputed
    \/ CallSummarySupplied

RateSpec == LibInit /\ [][RateNext]_vars

(***************************************************************************)
(* main(): the command line, argparse, and the dispatch on args.command.   *)
(***************************************************************************)
MaxFlags == 2

\* line 260-262: the choices of the positional argument
choices == {"header", "section", "status", "check", "table", "summary", "progress",
            "disclaimer"}

\* lines 263-276: the optional flags, by their attribute name in the namespace
StrFlags == {"title", "subtitle", "message", "style", "type", "name", "status",
             "details", "overall_status"}

IntFlags == {"total", "passed", "warnings", "failed", "rate"}

FlagNames == StrFlags \cup IntFlags

\* the words tried after each flag
Tokens == [title |-> {"", "Death Star"}, subtitle |-> {"", "Setup"},
           message |-> {"", "Working"}, style |-> {"", "error"},
           type |-> {"", "removal"}, name |-> {"", "Docker"},
           status |-> {"", "FAIL"}, details |-> {"", "not running"},
           overall_status |-> {"", "GOOD"},
           total |-> {"0", "10", "ten"}, passed |-> {"0", "7", "7.5"},
           warnings |-> {"0", "1"}, failed |-> {"0", "4"},
           rate |-> {"0", "85", "high"}]

Commands == choices \cup {"footer"}

\* every way to give the flags of S a word each
RECURSIVE Assignments(_)
Assignments(S) ==
    IF S = {} THEN {<<>>}
    ELSE LET f == CHOOSE x \in S : TRUE
         IN  {(f :> PyStr(tok)) @@ a : tok \in Tokens[f], a \in Assignments(S \ {f})}

\* the command lines: a command word and at most MaxFlags flags, an absent flag None
CommandLines ==
    {[command |-> c, flags |-> a @@ [f \in FlagNames |-> None]] :
        c \in Commands,
        a \in UNION {Assignments(S) : S \in {T \in SUBSET FlagNames : Cardinality(T) <= MaxFlags}}}

\* int(token) as argparse's type=int applies it: the int a decimal numeral denotes,
\* None for a word that is no numeral
ParseInt(token) ==
    IF \E n \in 0..100 : ToString(n) = token
    THEN PyInt(CHOOSE n \in 0..100 : ToString(n) = token)
    ELSE None

\* whether parser.parse_args() reports an error (and exits with status 2)
ParseError(cmdline) ==
    \/ cmdline.command \notin choices
    \/ \E f \in IntFlags : cmdline.flags[f] # None /\ ParseInt(cmdline.flags[f].v) = None

\* the namespace parse_args() returns
Namespace(cmdline) ==
    [f \in FlagNames |->
        IF cmdline.flags[f] = None THEN None
        ELSE IF f \in IntFlags THEN ParseInt(cmdline.flags[f].v)
        ELSE cmdline.flags[f]]
    @@ [command |-> cmdline.command]

Init ==
    /\ pc = "main"
    /\ argv \in CommandLines
    /\ args = None
    /\ calls = <<>>
    /\ console = <<>>
    /\ task = None
    /\ i = 0
    /\ exit_code = None

\* line 278, parse_args() succeeding
Parse ==
    /\ pc = "main"
    /\ ~ParseError(argv)
    /\ args' = Namespace(argv)
    /\ pc' = "dispatch"
    /\ UNCHANGED <<argv, calls, console, task, i, exit_code>>

\* line 278, parse_args() reporting an error: usage message, SystemExit(2)
ParseFail ==
    /\ pc = "main"
    /\ ParseError(argv)
    /\ exit_code' = PyInt(2)
    /\ pc' = "exited"
    /\ UNCHANGED <<argv, args, calls, console, task, i>>

DispatchHeader ==
    /\ pc = "dispatch"
    /\ args.command = "header"
    /\ Invoke([op |-> "print_header", title |-> Or(args.title, PyStr("Header")).v,
               subtitle |-> Or(args.subtitle, PyStr("")).v])
    /\ UNCHANGED <<argv, args, exit_code>>

\* the section branch with the header's default title
DispatchSectionHeaderDefault ==
    /\ pc = "dispatch"
    /\ args.command = "section"
    /\ Invoke([op |-> "print_section", title |-> Or(args.title, PyStr("Header")).v])
    /\ UNCHANGED <<argv, args, exit_code>>

DispatchSection ==
    /\ pc = "dispatch"
    /\ args.command = "section"
    /\ Invoke([op |-> "print_section", title |-> Or(args.title, PyStr("Section")).v])
    /\ UNCHANGED <<argv, args, exit_code>>

DispatchStatus ==
    /\ pc = "dispatch"
    /\ args.command = "status"
    /\ Invoke([op |-> "print_status", message |-> Or(args.message, PyStr("Status")).v,
               style |-> Or(args.style, PyStr("info")).v])
    /\ UNCHANGED <<argv, args, exit_code>>

DispatchCheck ==
    /\ pc = "dispatch"
    /\ args.command = "check"
    /\ Invoke([op |-> "print_check", name |-> Or(args.name, PyStr("Check")).v,
               status |-> Or(args.status, PyStr("PASS")).v,
               details |-> Or(args.details, PyStr("")).v])
    /\ UNCHANGED <<argv, args, exit_code>>

DispatchDisclaimer ==
    /\ pc = "dispatch"
    /\ args.command = "disclaimer"
    /\ Invoke([op |-> "print_disclaimer",
               disclaimer_type |-> Or(args.type, PyStr("legal")).v])
    /\ UNCHANGED <<argv, args, exit_code>>

DispatchSummary ==
    /\ pc = "dispatch"
    /\ args.command = "summary"
    /\ Invoke([op |-> "print_summary", total |-> Or(args.total, PyInt(0)).v,
               passed |-> Or(args.passed, PyInt(0)).v,
               warnings |-> Or(args.warnings, PyInt(0)).v,
               failed |-> Or(args.failed, PyInt(0)).v,
               rate |-> args.rate,
               overall_status |-> args.overall_status])
    /\ UNCHANGED <<argv, args, exit_code>>

DispatchProgress ==
    /\ pc = "dispatch"
    /\ args.command = "progress"
    /\ Invoke([op |-> "print_progress_bar",
               description |-> Or(args.message, PyStr("Processing")).v])
    /\ UNCHANGED <<argv, args, exit_code>>

\* a final `else:` that prints a header for a subcommand no branch names
DispatchElseHeader ==
    /\ pc = "dispatch"
    /\ args.command \notin {"header", "section", "status", "check", "disclaimer",
                            "summary", "progress"}
    /\ Invoke([op |-> "print_header", title |-> Or(args.title, PyStr("Header")).v,
               subtitle |-> Or(args.subtitle, PyStr("")).v])
    /\ UNCHANGED <<argv, args, exit_code>>

\* "table" is among the choices and no branch of the if/elif chain names it
DispatchNone ==
    /\ pc = "dispatch"
    /\ args.command \notin {"header", "section", "status", "check", "disclaimer",
                            "summary", "progress"}
    /\ pc' = "returned"
    /\ UNCHANGED <<argv, args, calls, console, task, i, exit_code>>

\* main() returns and the interpreter exits with status 0
Exit ==
    /\ pc = "returned"
    /\ exit_code' = PyInt(0)
    /\ pc' = "exited"
    /\ UNCHANGED <<argv, args, calls, console, task, i>>

Next ==
    \/ Parse
    \/ ParseFail
    \/ DispatchHeader
    \/ DispatchSection
    \/ DispatchStatus
    \/ DispatchCheck
    \/ DispatchDisclaimer
    \/ DispatchSummary
    \/ DispatchProgress
    \/ DispatchNone
    \/ ProgressStep
    \/ ProgressReturn
    \/ Exit

Spec == Init /\ [][Next]_vars

(***************************************************************************)
(* Properties.                                                             *)
(***************************************************************************)
\* the one call of a finished library call or dispatcher run
TheCall == calls[1]

\* a facade call of the given operation has been made and has returned
Done(op) == pc \in {"returned", "exited"} /\ Len(calls) = 1 /\ TheCall.op = op

\* the success rate in the last row of the summary table
ShownRate == console[1].rows[5][2]

\* the tier of the status panel that follows the summary table
ShownTier == console[2].tier

\* C1: with rate not supplied, print_summary shows round(passed/total*100) when
\* total > 0 -- an integer nearest to the quotient, the even one when the quotient
\* is a binary fraction exactly halfway -- and 0 when total = 0; (10,7) shows 70,
\* (10,10) shows 100, (10,2) shows 20.  With rate supplied (0 included) it shows
\* the supplied value whatever the counts.
C1_SuccessRate ==
    Done("print_summary") =>
        LET total == TheCall.total
            passed == TheCall.passed
        IN  /\ TheCall.rate # None => ShownRate = TheCall.rate.v
            /\ (TheCall.rate = None /\ total = 0) => ShownRate = 0
            /\ (TheCall.rate = None /\ total > 0) =>
                  /\ ShownRate = PyRound(FMul(FDiv(passed, total), 100))
                  /\ 2 * ShownRate * total - 200 * passed <= total
                  /\ 200 * passed - 2 * ShownRate * total <= total
                  /\ ((8 * passed) % total = 0 /\ ((8 * passed) \div total) % 2 = 1)
                        => ShownRate % 2 = 0
                  /\ (total = 10 /\ passed = 7) => ShownRate = 70
                  /\ (total = 10 /\ passed = 10) => ShownRate = 100
                  /\ (total = 10 /\ passed = 2) => ShownRate = 20

\* C1 witness: 1 of 8 is 12.5 percent, shown as the even neighbour 12
C1_Witness ==
    /\ Done("print_summary")
    /\ TheCall.rate = None /\ TheCall.total = 8 /\ TheCall.passed = 1
    /\ ShownRate = 12

\* C10 as stated: for 0 <= passed <= total and no rate supplied, the rate shown is
\* in 0..100, is 100 exactly when passed = total > 0, and is 0 when total = 0.
C10_Original ==
    (Done("print_summary") /\ TheCall.rate = None /\ TheCall.passed <= TheCall.total) =>
        /\ ShownRate \in 0..100
        /\ ShownRate = 100 <=> (TheCall.passed = TheCall.total /\ TheCall.total > 0)
        /\ TheCall.total = 0 => ShownRate = 0

\* C10 amended: for 0 <= passed <= total and no rate supplied, the rate shown is
\* in 0..100, is 0 when total = 0 (nothing is divided), and is 100 exactly when
\* total > 0 and passed/total >= 0.995, which passed = total > 0 satisfies and so
\* does, for instance, 199 of 200.
C10_RateRange ==
    (Done("print_summary") /\ TheCall.rate = None /\ TheCall.passed <= TheCall.total) =>
        /\ ShownRate \in 0..100
        /\ ShownRate = 100 <=>
              (TheCall.total > 0 /\ 200 * TheCall.passed >= 199 * TheCall.total)
        /\ (TheCall.passed = TheCall.total /\ TheCall.total > 0) => ShownRate = 100
        /\ TheCall.total = 0 => ShownRate = 0

\* C10 witness: fewer passed than total, and 100 shown
C10_Witness ==
    /\ Done("print_summary")
    /\ TheCall.rate = None /\ TheCall.passed < TheCall.total
    /\ ShownRate = 100

\* the tier the counts alone give
DerivedTier(warnings, failed) ==
    CASE failed = 0 /\ warnings = 0 -> "EXCELLENT"
      [] ~(failed = 0 /\ warnings = 0) /\ failed <= 3 -> "GOOD"
      [] failed > 3 -> "NEEDS ATTENTION"

\* C2: with no overall_status, print_summary prints the table and then exactly one
\* status panel, whose tier is EXCELLENT iff failed = 0 and warnings = 0, otherwise
\* GOOD iff failed <= 3, otherwise NEEDS ATTENTION; total, passed and rate play no
\* role.
C2_DerivedTier ==
    (Done("print_summary") /\ TheCall.overall_status = None) =>
        /\ Len(console) = 2
        /\ console[1].kind = "table"
        /\ console[2].kind = "panel"
        /\ ShownTier = DerivedTier(TheCall.warnings, TheCall.failed)
        /\ ShownTier = "EXCELLENT" <=> (TheCall.failed = 0 /\ TheCall.warnings = 0)
        /\ ShownTier = "NEEDS ATTENTION" <=> TheCall.failed > 3

\* C2 witness: three failures are still GOOD, with a rate supplied and passed < total
C2_Witness ==
    /\ Done("print_summary")
    /\ TheCall.overall_status = None /\ TheCall.failed = 3 /\ TheCall.warnings = 2
    /\ TheCall.rate = PyInt(0) /\ TheCall.passed = 7 /\ TheCall.total = 10
    /\ ShownTier = "GOOD"

\* C3 as stated: whenever overall_status is supplied, the tier of the panel is the
\* supplied overall_status, whatever the counts.
C3_Original ==
    (Done("print_summary") /\ TheCall.overall_status # None) =>
        ShownTier = TheCall.overall_status.v

\* C3 amended: a supplied overall_status of EXCELLENT or GOOD gives that tier and
\* any other non-empty one (NEEDS ATTENTION included) gives NEEDS ATTENTION,
\* whatever the counts; the tier derived from the counts is used when
\* overall_status is not supplied or is the empty string.
C3_SuppliedTier ==
    Done("print_summary") =>
        LET given == TheCall.overall_status
        IN  /\ given \in {PyStr("EXCELLENT"), PyStr("GOOD"), PyStr("NEEDS ATTENTION")}
                  => ShownTier = given.v
            /\ (given # None /\ given # PyStr("")
                  /\ given \notin {PyStr("EXCELLENT"), PyStr("GOOD")})
                  => ShownTier = "NEEDS ATTENTION"
            /\ given \in {None, PyStr("")}
                  => ShownTier = DerivedTier(TheCall.warnings, TheCall.failed)

\* C3 witness: EXCELLENT supplied over counts that would derive NEEDS ATTENTION
C3_Witness ==
    /\ Done("print_summary")
    /\ TheCall.overall_status = PyStr("EXCELLENT") /\ TheCall.failed = 5
    /\ ShownTier = "EXCELLENT"

\* C4: print_check shows the fixed icon and colour of a known status tag (PASS
\* green, FAIL red, WARN yellow, INFO blue) and the bullet in white for any other;
\* print_status shows the message in the fixed colour of a known style tag (info
\* blue, success green, warning yellow, error red) and in white for any other.
C4_TagFallback ==
    /\ Done("print_check") =>
          /\ console[1].kind = "check"
          /\ console[1].status = TheCall.status /\ console[1].name = TheCall.name
          /\ <<console[1].icon, console[1].color>> =
                CASE TheCall.status = "PASS" -> <<"check-mark", "green">>
                  [] TheCall.status = "FAIL" -> <<"cross-mark", "red">>
                  [] TheCall.status = "WARN" -> <<"warning-sign", "yellow">>
                  [] TheCall.status = "INFO" -> <<"information", "blue">>
                  [] OTHER -> <<"bullet", "white">>
    /\ Done("print_status") =>
          /\ Len(console) = 1
          /\ console[1].text = TheCall.message
          /\ console[1].style =
                CASE TheCall.style = "info" -> "blue"
                  [] TheCall.style = "success" -> "green"
                  [] TheCall.style = "warning" -> "yellow"
                  [] TheCall.style = "error" -> "red"
                  [] OTHER -> "white"

\* C4 witness: an unknown status tag rendered with the bullet in white
C4_Witness ==
    /\ Done("print_check")
    /\ TheCall.status = "SKIP"
    /\ console[1].icon = "bullet" /\ console[1].color = "white"

\* C5: print_disclaimer prints exactly one panel; legal, removal and system_removal
\* each select their own text, pairwise distinct, and every other kind (the empty
\* string included) selects the 'Unknown disclaimer type' panel, distinct from
\* all three.
C5_Disclaimer ==
    Done("print_disclaimer") =>
        LET kind == TheCall.disclaimer_type
            known == {"legal", "removal", "system_removal"}
            panel == console[1]
        IN  /\ Len(console) = 1
            /\ panel.kind = "panel"
            /\ kind = "legal" => panel.title = "LEGAL DISCLAIMER"
            /\ kind = "removal" => panel.title = "COMPLETE REMOVAL CONFIRMATION"
            /\ kind = "system_removal" => panel.title = "COMPLETE SYSTEM REMOVAL"
            /\ kind \notin known =>
                  /\ panel.content = "Unknown disclaimer type"
                  /\ \A k \in known : print_disclaimer(k) # <<panel>>
            /\ \A k \in known \ {kind} :
                  print_disclaimer(k)[1].content # panel.content

\* C5 witness: the empty kind gets the unknown-type panel
C5_Witness ==
    /\ Done("print_disclaimer")
    /\ TheCall.disclaimer_type = ""
    /\ console[1].content = "Unknown disclaimer type"

\* the documented default of each argument of each facade operation
DocumentedDefaults ==
    [print_header |-> [title |-> "Header", subtitle |-> ""],
     print_section |-> [title |-> "Section"],
     print_status |-> [message |-> "Status", style |-> "info"],
     print_check |-> [name |-> "Check", status |-> "PASS", details |-> ""],
     print_disclaimer |-> [disclaimer_type |-> "legal"],
     print_progress_bar |-> [description |-> "Processing"],
     print_summary |-> [total |-> 0, passed |-> 0, warnings |-> 0, failed |-> 0,
                        rate |-> None, overall_status |-> None]]

\* the flag that feeds an argument
FlagOf(argument) ==
    CASE argument = "disclaimer_type" -> "type"
      [] argument = "description" -> "message"
      [] OTHER -> argument

\* C6: every argument whose flag is absent from the command line reaches the
\* facade operation as its documented default; for summary, rate and
\* overall_status stay unsupplied, so that the rate and the tier are the computed
\* ones.
C6_Defaults ==
    \A k \in 1..Len(calls) :
        LET c == calls[k]
            d == DocumentedDefaults[c.op]
        IN  /\ \A a \in DOMAIN d : argv.flags[FlagOf(a)] = None => c[a] = d[a]
            /\ (c.op = "print_summary" /\ pc = "exited") =>
                  /\ (argv.flags.rate = None /\ argv.flags.total = None)
                        => ShownRate = 0
                  /\ argv.flags.overall_status = None
                        => ShownTier = DerivedTier(c.warnings, c.failed)

\* C6 witness: `progress` with no --message has run with the description Processing
C6_Witness ==
    /\ pc = "exited"
    /\ argv.command = "progress" /\ argv.flags.message = None
    /\ calls = <<[op |-> "print_progress_bar", description |-> "Processing"]>>

\* the facade operation each subcommand names
Named ==
    [header |-> "print_header", section |-> "print_section", status |-> "print_status",
     check |-> "print_check", summary |-> "print_summary",
     progress |-> "print_progress_bar", disclaimer |-> "print_disclaimer"]

\* the command line does not parse: an unknown subcommand, or a word that is no
\* integer after an int flag
Malformed ==
    \/ argv.command \notin {"header", "section", "status", "check", "table", "summary",
                            "progress", "disclaimer"}
    \/ \E f \in {"total", "passed", "warnings", "failed", "rate"} :
          argv.flags[f] \in {PyStr("ten"), PyStr("7.5"), PyStr("high")}

\* C7: a run makes at most one facade call, and a call made is the one the
\* subcommand names; a parsed run ends with status 0 having made that call exactly
\* once, except that `table` calls and prints nothing; a run whose command line
\* does not parse calls nothing and ends with a non-zero status.
C7_OneCall ==
    /\ Len(calls) <= 1
    /\ calls # <<>> =>
          /\ argv.command \in DOMAIN Named
          /\ TheCall.op = Named[argv.command]
          /\ ~Malformed
    /\ pc = "exited" =>
          IF Malformed
          THEN exit_code # PyInt(0) /\ calls = <<>> /\ console = <<>>
          ELSE /\ exit_code = PyInt(0)
               /\ argv.command = "table" => (calls = <<>> /\ console = <<>>)
               /\ argv.command # "table" => Len(calls) = 1

\* C7 witness: `table` given flags has exited with status 0 and nothing called
C7_Witness ==
    /\ pc = "exited" /\ exit_code = PyInt(0)
    /\ argv.command = "table" /\ argv.flags.title # None
    /\ calls = <<>> /\ console = <<>>

\* the value a flag's word denotes: the int of a numeral, the word itself otherwise
Supplied(argument) ==
    LET word == argv.flags[FlagOf(argument)].v
        number == CASE word = "0" -> 0 [] word = "1" -> 1 [] word = "4" -> 4
                    [] word = "7" -> 7 [] word = "10" -> 10 [] word = "85" -> 85
    IN  CASE argument \in {"total", "passed", "warnings", "failed"} -> number
          [] argument = "rate" -> PyInt(number)
          [] argument = "overall_status" -> PyStr(word)
          [] OTHER -> word

\* C9: every flag present on the command line reaches the facade operation as the
\* value supplied, an empty string or a 0 included, never as the default.
C9_Original ==
    \A k \in 1..Len(calls) :
        LET c == calls[k]
        IN  \A a \in DOMAIN DocumentedDefaults[c.op] :
                argv.flags[FlagOf(a)] # None => c[a] = Supplied(a)

\* C8: print_progress_bar creates one task of total 100; while it runs the
\* completed count equals the number of iterations done and never exceeds the
\* total; each step adds exactly 1; on return 100 iterations are done and completed
\* equals the total; and once started it does return.
C8_Progress ==
    /\ [](pc = "progress_loop" =>
             /\ task.total = 100
             /\ task.completed = i
             /\ 0 <= task.completed /\ task.completed <= task.total)
    /\ [][(pc = "progress_loop" /\ pc' = "progress_loop")
             => task'.completed = task.completed + 1]_vars
    /\ [](Done("print_progress_bar") => (i = 100 /\ task.completed = task.total))
    /\ [][pc' = "progress_loop" /\ pc # "progress_loop"
             => (task'.completed = 0 /\ task'.total = 100)]_vars
    /\ ((pc = "progress_loop") ~> Done("print_progress_bar"))

\* C8 witness: the call has returned with the task complete
C8_Witness ==
    /\ Done("print_progress_bar")
    /\ task.completed = 100 /\ task.total = 100

====
